---- MODULE Spec2Model ----
(***************************************************************************)
(* WaitGroupPool (src/waitgrouppool.go): a sync.WaitGroup with a bounded   *)
(* number of concurrently admitted goroutines.  The buffered channel       *)
(* `current` is the admission slot pool, `wg` the pending-work counter.    *)
(*                                                                         *)
(* Goroutines of the caller (Threads) call Add / AddWithTimeout /          *)
(* AddWithContext / Wait; after an Add* call returns (n, err) the caller   *)
(* launches n units of work, each of which calls Done once.  Every         *)
(* channel operation and every WaitGroup operation is one step.            *)
(***************************************************************************)
EXTENDS Integers, FiniteSets, Sequences, TLC

\* ---------------------------------------------------------------- bounds
MaxLimit == 2                 \* largest positive limit passed to New
MaxDelta == 2                 \* largest delta passed to an Add* call
MaxUnits == 3                 \* total admissions requested over a run

\* ------------------------------------------------------------- constants
MaxInt32 == 2147483647                  \* math.MaxInt32
DEFAULT_ASSIGNMENT_TIMEOUT == 60        \* time.Second * 60, in seconds

\* Time advances in steps of half the default timeout.
TickLen == DEFAULT_ASSIGNMENT_TIMEOUT \div 2

Threads == {"g1", "g2"}
Limits == 0 .. MaxLimit
Deltas == -1 .. MaxDelta
Timeouts == {0, TickLen, DEFAULT_ASSIGNMENT_TIMEOUT}

Signals == {"nil", "Canceled"}

NoRet == [n |-> 0, err |-> "none"]

VARIABLES
    limit,      \* the argument New was called with
    Size,       \* WaitGroupPool.Size
    timeout,    \* WaitGroupPool.timeout
    chanCap,    \* cap(current)
    current,    \* len(current): tokens held in the channel
    wg,         \* counter of the sync.WaitGroup
    pc,         \* per goroutine: position in the call it is executing
    delta,      \* per goroutine: the delta argument of its Add* call
    i,          \* per goroutine: loop index of AddWithContext
    assigned,   \* per goroutine: local variable assigned of AddWithContext
    ret,        \* per goroutine: the (int, error) the call returned
    ctxKind,    \* per goroutine: "timeout" (derived deadline) or "signal"
    ctxLeft,    \* per goroutine: time left until the derived deadline
    sig,        \* per goroutine: the caller's own cancellation signal
    ctxDoneAtCall, \* per goroutine: the signal was triggered at call time
    acquired,   \* per goroutine: sends on current made by the running call
    incs,       \* per goroutine: wg.Add(1) calls made by the running call
    snap,       \* per goroutine: admissions granted by returned calls when
                \*   Wait was invoked
    running,    \* units launched whose Done has not started
    doneMid,    \* units inside Done: received from current, wg.Done pending
    finished,   \* units whose Done has completed
    granted,    \* admissions granted by Add* calls that have returned
    issued,     \* sum of the valid deltas requested so far
    budget,     \* bound of the run: the most admissions it may request
    ctxTimeout, \* per goroutine: the duration its deadline was derived with
    elapsed,    \* per goroutine: time passed since its Add* call started,
                \*   counted up to the timeout of the call
    attemptStart, \* per goroutine: elapsed when the current attempt started
    cpc,        \* position of the caller of AddWithContextCocurrent
    cdelta,     \* the delta argument of that call
    cret,       \* the (int, error) that call returned
    csig,       \* ctx.Err() of the context that call was made with
    worker,     \* per spawned attempt goroutine: its position
    spinner,    \* position of the goroutine polling len(grCh)
    errCh,      \* the unbuffered channel errCh: closed or not
    grCh,       \* the buffered channel grCh: its length, closed or not
    complete,   \* the unbuffered channel complete: closed or not
    cAcquired,  \* sends on current made by the attempts of that call
    cIncs       \* wg.Add(1) calls made by the attempts of that call

vars == << limit, Size, timeout, chanCap, current, wg, pc, delta, i,
           assigned, ret, ctxKind, ctxLeft, sig, ctxDoneAtCall, acquired,
           incs, snap, running, doneMid, finished, granted, issued,
           budget, ctxTimeout, elapsed, attemptStart, cpc, cdelta, cret,
           csig, worker, spinner, errCh, grCh, complete, cAcquired, cIncs >>

objVars == << limit, Size, timeout, chanCap, budget >>
unitVars == << running, doneMid, finished >>
timeVars == << ctxTimeout, elapsed, attemptStart >>
concVars == << cpc, cdelta, cret, csig, worker, spinner, errCh, grCh,
               complete, cAcquired, cIncs >>

\* The attempt goroutines AddWithContextCocurrent can spawn
Workers == 1 .. MaxDelta

\* ----------------------------------------------------------- construction
\* Variant of NewSize: a non-positive limit is kept as capacity zero.
NewSize_ZeroStaysZero(l) == IF l > 0 THEN l ELSE 0

\* size := math.MaxInt32; if limit > 0 { size = limit }
NewSize(l) == IF l > 0 THEN l ELSE MaxInt32

\* func WithSize(size int) Option: wgp.Size = size
WithSize(size) == [field |-> "Size", val |-> size]

\* func WithTimeout(d time.Duration) Option: wgp.timeout = d
WithTimeout(d) == [field |-> "timeout", val |-> d]

\* opt(wgp): the option writes its one field of the object
ApplyOption(w, o) ==
    IF o.field = "Size" THEN [w EXCEPT !.Size = o.val]
                        ELSE [w EXCEPT !.timeout = o.val]

\* for _, opt := range opts { opt(wgp) }
RECURSIVE ApplyOptions(_, _)
ApplyOptions(w, opts) ==
    IF opts = << >> THEN w
    ELSE ApplyOptions(ApplyOption(w, Head(opts)), Tail(opts))

\* Variant of New: the channel is made one slot larger than the size.
New_ChanOneLarger(l, opts) ==
    ApplyOptions([Size |-> NewSize(l),
                  timeout |-> DEFAULT_ASSIGNMENT_TIMEOUT,
                  cap |-> IF NewSize(l) < MaxInt32 THEN NewSize(l) + 1
                                                   ELSE NewSize(l)], opts)

\* New(limit, opts...): the object it returns; cap is cap(current)
New(l, opts) ==
    ApplyOptions([Size |-> NewSize(l),
                  timeout |-> DEFAULT_ASSIGNMENT_TIMEOUT,
                  cap |-> NewSize(l)], opts)

\* No goroutine has called the object yet, no unit of work exists.
InitCalls ==
    /\ current = 0
    /\ wg = 0
    /\ pc = [t \in Threads |-> "idle"]
    /\ delta = [t \in Threads |-> 0]
    /\ i = [t \in Threads |-> 0]
    /\ assigned = [t \in Threads |-> 0]
    /\ ret = [t \in Threads |-> NoRet]
    /\ ctxKind = [t \in Threads |-> "none"]
    /\ ctxLeft = [t \in Threads |-> 0]
    /\ sig = [t \in Threads |-> "nil"]
    /\ ctxDoneAtCall = [t \in Threads |-> FALSE]
    /\ acquired = [t \in Threads |-> 0]
    /\ incs = [t \in Threads |-> 0]
    /\ snap = [t \in Threads |-> 0]
    /\ running = 0
    /\ doneMid = 0
    /\ finished = 0
    /\ granted = 0
    /\ issued = 0
    /\ ctxTimeout = [t \in Threads |-> 0]
    /\ elapsed = [t \in Threads |-> 0]
    /\ attemptStart = [t \in Threads |-> 0]
    /\ cpc = "idle"
    /\ cdelta = 0
    /\ cret = NoRet
    /\ csig = "nil"
    /\ worker = [k \in Workers |-> "off"]
    /\ spinner = "off"
    /\ errCh = [closed |-> FALSE]
    /\ grCh = [len |-> 0, closed |-> FALSE]
    /\ complete = [closed |-> FALSE]
    /\ cAcquired = 0
    /\ cIncs = 0

\* The option lists objects are constructed with: none, or a timeout
OptionLists ==
    {<< >>} \cup {<< WithTimeout(d) >> : d \in Timeouts}

\* Option lists that override the capacity
SizeOptionLists == {<< WithSize(k) >> : k \in 1 .. MaxLimit}

\* The state right after swg := New(l, opts...), no call made yet
Fresh(l, opts) ==
    /\ limit = l
    /\ Size = New(l, opts).Size
    /\ timeout = New(l, opts).timeout
    /\ chanCap = New(l, opts).cap
    /\ InitCalls

Init ==
    /\ \E l \in Limits, opts \in OptionLists : Fresh(l, opts)
    /\ budget = MaxUnits

\* ---------------------------------------------------------------- context
\* Variant of CtxErr: an expired deadline reports Canceled.
CtxErr_DeadlineAsCanceled(t) ==
    CASE ctxKind[t] = "timeout" ->
             IF ctxLeft[t] = 0 THEN "Canceled" ELSE "nil"
      [] ctxKind[t] = "signal" -> sig[t]
      [] OTHER -> "nil"

\* ctx.Err(): nil while the context is live
CtxErr(t) ==
    CASE ctxKind[t] = "timeout" ->
             IF ctxLeft[t] = 0 THEN "DeadlineExceeded" ELSE "nil"
      [] ctxKind[t] = "signal" -> sig[t]
      [] OTHER -> "nil"

\* context.WithTimeout(context.Background(), d): already expired when d <= 0
Remaining(d) == IF d > 0 THEN d ELSE 0

\* Variant of InvalidDelta: only a negative delta is rejected.
InvalidDelta_NegativeOnly(d) == d < 0

\* if delta < 1 { return 0, errors.New(...) }
InvalidDelta(d) == d < 1

\* Variant of LoopCond: the loop makes one attempt too many.
LoopCond_Inclusive(k, d) == k <= d

\* for i := 0; i < delta; i++
LoopCond(k, d) == k < d

\* Entry of AddWithContext(ctx, delta) for goroutine t, up to the first
\* blocking select (or the return, when no attempt is made).
EnterAddWithContext(t, d) ==
    /\ delta' = [delta EXCEPT ![t] = d]
    /\ i' = [i EXCEPT ![t] = 0]
    /\ assigned' = [assigned EXCEPT ![t] = 0]
    /\ acquired' = [acquired EXCEPT ![t] = 0]
    /\ incs' = [incs EXCEPT ![t] = 0]
    /\ elapsed' = [elapsed EXCEPT ![t] = 0]
    /\ attemptStart' = [attemptStart EXCEPT ![t] = 0]
    /\ IF InvalidDelta(d)
         THEN /\ pc' = [pc EXCEPT ![t] = "returned"]
              /\ ret' = [ret EXCEPT ![t] = [n |-> 0, err |-> "InvalidArgument"]]
              /\ UNCHANGED issued
         ELSE IF LoopCond(0, d)
         THEN /\ issued + d <= budget
              /\ pc' = [pc EXCEPT ![t] = "select"]
              /\ ret' = [ret EXCEPT ![t] = NoRet]
              /\ issued' = issued + d
         ELSE /\ pc' = [pc EXCEPT ![t] = "returned"]
              /\ ret' = [ret EXCEPT ![t] = [n |-> d, err |-> "nil"]]
              /\ UNCHANGED issued

\* func (s *WaitGroupPool) Add(delta int) (int, error)
Add(t, d) ==
    /\ pc[t] = "idle"
    /\ ctxKind' = [ctxKind EXCEPT ![t] = "timeout"]
    /\ ctxLeft' = [ctxLeft EXCEPT ![t] = Remaining(timeout)]
    /\ ctxTimeout' = [ctxTimeout EXCEPT ![t] = timeout]
    /\ ctxDoneAtCall' = [ctxDoneAtCall EXCEPT ![t] = FALSE]
    /\ EnterAddWithContext(t, d)
    /\ UNCHANGED << concVars, objVars, current, wg, sig, snap, unitVars, granted >>

\* func (s *WaitGroupPool) AddWithTimeout(delta int, timeout time.Duration)
AddWithTimeout(t, d, to) ==
    /\ pc[t] = "idle"
    /\ ctxKind' = [ctxKind EXCEPT ![t] = "timeout"]
    /\ ctxLeft' = [ctxLeft EXCEPT ![t] = Remaining(to)]
    /\ ctxTimeout' = [ctxTimeout EXCEPT ![t] = to]
    /\ ctxDoneAtCall' = [ctxDoneAtCall EXCEPT ![t] = FALSE]
    /\ EnterAddWithContext(t, d)
    /\ UNCHANGED << concVars, objVars, current, wg, sig, snap, unitVars, granted >>

\* func (s *WaitGroupPool) AddWithContext(ctx context.Context, delta int),
\* called with a cancellation signal of the caller that is still live
\* ("nil") or already triggered ("Canceled")
AddWithContext(t, signal, d) ==
    /\ pc[t] = "idle"
    /\ sig' = [sig EXCEPT ![t] = signal]
    /\ ctxKind' = [ctxKind EXCEPT ![t] = "signal"]
    /\ ctxLeft' = [ctxLeft EXCEPT ![t] = 0]
    /\ ctxTimeout' = [ctxTimeout EXCEPT ![t] = 0]
    /\ ctxDoneAtCall' = [ctxDoneAtCall EXCEPT ![t] = (signal # "nil")]
    /\ EnterAddWithContext(t, d)
    /\ UNCHANGED << concVars, objVars, current, wg, snap, unitVars, granted >>

\* Variant of CanSend: a send is accepted by a full channel.
CanSend_OffByOne(len, cap) == len <= cap

\* A send on the buffered channel current is ready while len < cap.
CanSend(len, cap) == len < cap

\* A receive from the channel current is ready while it holds a token.
CanRecv(len) == len > 0

\* Variant of FailureCount: the failing attempt is counted as granted.
FailureCount_PlusOne(a, d) == a + 1

\* Variant of FailureCount: the failing call reports delta.
FailureCount_Delta(a, d) == d

\* return assigned, err: the count AddWithContext returns with an error
FailureCount(a, d) == a

\* atomicAddWithContext, select case `s.current <- struct{}{}`
SelectSend(t) ==
    /\ pc[t] = "select"
    /\ CanSend(current, chanCap)
    /\ current' = current + 1
    /\ acquired' = [acquired EXCEPT ![t] = @ + 1]
    /\ pc' = [pc EXCEPT ![t] = "wgAdd"]
    /\ UNCHANGED << concVars, timeVars, objVars, wg, delta, i, assigned, ret, ctxKind,
                    ctxLeft, sig, ctxDoneAtCall, incs, snap, unitVars,
                    granted, issued >>

\* Variant of SelectCtxDone: s.wg.Add(1) is made before the select, so the
\* failing attempt has raised the counter.
SelectCtxDone_CountsFirst(t) ==
    /\ pc[t] = "select"
    /\ CtxErr(t) # "nil"
    /\ wg' = wg + 1
    /\ pc' = [pc EXCEPT ![t] = "returned"]
    /\ ret' = [ret EXCEPT ![t] =
                 [n |-> FailureCount(assigned[t], delta[t]), err |-> CtxErr(t)]]
    /\ granted' = granted + acquired[t]
    /\ UNCHANGED << concVars, timeVars, objVars, current, delta, i, assigned, ctxKind,
                    ctxLeft, sig, ctxDoneAtCall, acquired, incs, snap,
                    unitVars, issued >>

\* atomicAddWithContext, select case `<-ctx.Done()`: return 0, ctx.Err();
\* AddWithContext then returns assigned, err
SelectCtxDone(t) ==
    /\ pc[t] = "select"
    /\ CtxErr(t) # "nil"
    /\ pc' = [pc EXCEPT ![t] = "returned"]
    /\ ret' = [ret EXCEPT ![t] =
                 [n |-> FailureCount(assigned[t], delta[t]), err |-> CtxErr(t)]]
    /\ granted' = granted + acquired[t]
    /\ UNCHANGED << concVars, timeVars, objVars, current, wg, delta, i, assigned, ctxKind,
                    ctxLeft, sig, ctxDoneAtCall, acquired, incs, snap,
                    unitVars, issued >>

\* Variant of WgAfterAdd: the increment is lost.
WgAfterAdd_Lost(c) == c

\* The counter after s.wg.Add(1)
WgAfterAdd(c) == c + 1

\* Variant of WgAdd: every attempt derives its own deadline from the
\* timeout of the call.
WgAdd_FreshDeadline(t) ==
    /\ pc[t] = "wgAdd"
    /\ wg' = WgAfterAdd(wg)
    /\ incs' = [incs EXCEPT ![t] = @ + 1]
    /\ assigned' = [assigned EXCEPT ![t] = @ + 1]
    /\ i' = [i EXCEPT ![t] = @ + 1]
    /\ IF LoopCond(i[t] + 1, delta[t])
         THEN /\ pc' = [pc EXCEPT ![t] = "select"]
              /\ attemptStart' = [attemptStart EXCEPT ![t] = elapsed[t]]
              /\ ctxLeft' = [ctxLeft EXCEPT ![t] =
                                IF ctxKind[t] = "timeout"
                                    THEN Remaining(ctxTimeout[t]) ELSE @]
              /\ UNCHANGED << ret, granted >>
         ELSE /\ pc' = [pc EXCEPT ![t] = "returned"]
              /\ ret' = [ret EXCEPT ![t] = [n |-> delta[t], err |-> "nil"]]
              /\ granted' = granted + acquired[t]
              /\ UNCHANGED << attemptStart, ctxLeft >>
    /\ UNCHANGED << concVars, objVars, current, delta, ctxKind, sig,
                    ctxDoneAtCall, acquired, snap, unitVars, issued,
                    ctxTimeout, elapsed >>

\* atomicAddWithContext after the select: s.wg.Add(1); return 1, nil.
\* AddWithContext: assigned += 1; i++; loop, or return delta, nil
WgAdd(t) ==
    /\ pc[t] = "wgAdd"
    /\ wg' = WgAfterAdd(wg)
    /\ incs' = [incs EXCEPT ![t] = @ + 1]
    /\ assigned' = [assigned EXCEPT ![t] = @ + 1]
    /\ i' = [i EXCEPT ![t] = @ + 1]
    /\ IF LoopCond(i[t] + 1, delta[t])
         THEN /\ pc' = [pc EXCEPT ![t] = "select"]
              /\ attemptStart' = [attemptStart EXCEPT ![t] = elapsed[t]]
              /\ UNCHANGED << ret, granted >>
         ELSE /\ pc' = [pc EXCEPT ![t] = "returned"]
              /\ ret' = [ret EXCEPT ![t] = [n |-> delta[t], err |-> "nil"]]
              /\ granted' = granted + acquired[t]
              /\ UNCHANGED attemptStart
    /\ UNCHANGED << concVars, objVars, current, delta, ctxKind, ctxLeft, sig,
                    ctxDoneAtCall, acquired, snap, unitVars, issued,
                    ctxTimeout, elapsed >>

\* The caller, after its Add* call returned (n, err): it launches n units
\* (go func() { defer swg.Done(); ... }()) and is ready for its next call.
Launch(t) ==
    /\ pc[t] = "returned"
    /\ running' = running + ret[t].n
    /\ pc' = [pc EXCEPT ![t] = "idle"]
    /\ delta' = [delta EXCEPT ![t] = 0]
    /\ i' = [i EXCEPT ![t] = 0]
    /\ assigned' = [assigned EXCEPT ![t] = 0]
    /\ ret' = [ret EXCEPT ![t] = NoRet]
    /\ ctxKind' = [ctxKind EXCEPT ![t] = "none"]
    /\ ctxLeft' = [ctxLeft EXCEPT ![t] = 0]
    /\ sig' = [sig EXCEPT ![t] = "nil"]
    /\ ctxDoneAtCall' = [ctxDoneAtCall EXCEPT ![t] = FALSE]
    /\ acquired' = [acquired EXCEPT ![t] = 0]
    /\ incs' = [incs EXCEPT ![t] = 0]
    /\ ctxTimeout' = [ctxTimeout EXCEPT ![t] = 0]
    /\ elapsed' = [elapsed EXCEPT ![t] = 0]
    /\ attemptStart' = [attemptStart EXCEPT ![t] = 0]
    /\ UNCHANGED << concVars, objVars, current, wg, snap, doneMid, finished,
                    granted, issued >>

\* Done, first statement: <-s.current (blocks while the channel is empty)
DoneRecv ==
    /\ running > 0
    /\ CanRecv(current)
    /\ current' = current - 1
    /\ running' = running - 1
    /\ doneMid' = doneMid + 1
    /\ UNCHANGED << concVars, timeVars, objVars, wg, pc, delta, i, assigned, ret, ctxKind,
                    ctxLeft, sig, ctxDoneAtCall, acquired, incs, snap,
                    finished, granted, issued >>

\* Variant of WgAfterDone: the decrement is lost.
WgAfterDone_Lost(c) == c

\* The counter after s.wg.Done()
WgAfterDone(c) == c - 1

\* Variant of Woken: waiters are woken when one unit is still pending.
Woken_Early(p, c) ==
    [t \in Threads |-> IF p[t] = "waiting" /\ c <= 1 THEN "woken" ELSE p[t]]

\* sync.WaitGroup: the goroutines blocked in Wait are woken when the
\* counter reaches zero.
Woken(p, c) ==
    [t \in Threads |-> IF p[t] = "waiting" /\ c = 0 THEN "woken" ELSE p[t]]

\* Done, second statement: s.wg.Done()
DoneWg ==
    /\ doneMid > 0
    /\ wg' = WgAfterDone(wg)
    /\ doneMid' = doneMid - 1
    /\ finished' = finished + 1
    /\ pc' = Woken(pc, wg')
    /\ UNCHANGED << concVars, timeVars, objVars, current, delta, i, assigned, ret, ctxKind,
                    ctxLeft, sig, ctxDoneAtCall, acquired, incs, snap,
                    running, granted, issued >>

\* Variant of WaitBlocks: Wait does not block on a counter of one.
WaitBlocks_AboveOne(c) == c > 1

\* sync.WaitGroup.Wait blocks while the counter is not zero.
WaitBlocks(c) == c # 0

\* func (s *WaitGroupPool) Wait(): s.wg.Wait()
Wait(t) ==
    /\ pc[t] = "idle"
    /\ snap' = [snap EXCEPT ![t] = granted]
    /\ pc' = [pc EXCEPT ![t] = IF WaitBlocks(wg) THEN "waiting" ELSE "woken"]
    /\ UNCHANGED << concVars, timeVars, objVars, current, wg, delta, i, assigned, ret, ctxKind,
                    ctxLeft, sig, ctxDoneAtCall, acquired, incs, unitVars,
                    granted, issued >>

\* Wait returns to its caller.
WaitReturn(t) ==
    /\ pc[t] = "woken"
    /\ pc' = [pc EXCEPT ![t] = "idle"]
    /\ snap' = [snap EXCEPT ![t] = 0]
    /\ UNCHANGED << concVars, timeVars, objVars, current, wg, delta, i, assigned, ret, ctxKind,
                    ctxLeft, sig, ctxDoneAtCall, acquired, incs, unitVars,
                    granted, issued >>

\* The caller's signal is triggered (cancelFunc()) while its AddWithContext
\* call is in progress.
Cancel(t) ==
    /\ pc[t] \in {"select", "wgAdd"}
    /\ ctxKind[t] = "signal"
    /\ sig[t] = "nil"
    /\ sig' = [sig EXCEPT ![t] = "Canceled"]
    /\ UNCHANGED << concVars, timeVars, objVars, current, wg, pc, delta, i, assigned, ret,
                    ctxKind, ctxLeft, ctxDoneAtCall, acquired, incs, snap,
                    unitVars, granted, issued >>

\* Goroutine t is inside an Add* call
InAdd(t) == pc[t] \in {"select", "wgAdd"}

\* A goroutine inside an Add* call whose derived deadline has not passed
TimerRunning(t) ==
    /\ InAdd(t)
    /\ ctxKind[t] = "timeout"
    /\ ctxLeft[t] > 0

\* The time a call has been running after one more tick; it is counted up
\* to the call's timeout, past which nothing depends on it.
Elapse(e, to) == IF e + TickLen < to THEN e + TickLen ELSE Remaining(to)

\* Time passes: every running deadline of context.WithTimeout gets closer.
Tick ==
    /\ \E t \in Threads : TimerRunning(t)
    /\ ctxLeft' = [t \in Threads |->
                     IF TimerRunning(t) THEN Remaining(ctxLeft[t] - TickLen)
                                        ELSE ctxLeft[t]]
    /\ elapsed' = [t \in Threads |->
                     IF InAdd(t) /\ ctxKind[t] = "timeout"
                         THEN Elapse(elapsed[t], ctxTimeout[t])
                         ELSE elapsed[t]]
    /\ UNCHANGED << concVars, objVars, current, wg, pc, delta, i, assigned, ret,
                    ctxKind, sig, ctxDoneAtCall, acquired, incs, snap,
                    unitVars, granted, issued, ctxTimeout, attemptStart >>

Next ==
    \/ \E t \in Threads, d \in Deltas : Add(t, d)
    \/ \E t \in Threads, d \in Deltas, to \in Timeouts : AddWithTimeout(t, d, to)
    \/ \E t \in Threads, signal \in Signals, d \in Deltas :
          AddWithContext(t, signal, d)
    \/ \E t \in Threads : SelectSend(t)
    \/ \E t \in Threads : SelectCtxDone(t)
    \/ \E t \in Threads : WgAdd(t)
    \/ \E t \in Threads : Launch(t)
    \/ DoneRecv
    \/ DoneWg
    \/ \E t \in Threads : Wait(t)
    \/ \E t \in Threads : WaitReturn(t)
    \/ \E t \in Threads : Cancel(t)
    \/ Tick

Spec == Init /\ [][Next]_vars

\* The Go scheduler runs every runnable goroutine: a caller that got its
\* result launches its units, a unit reaches and finishes its Done, a woken
\* Wait returns.  Nothing forces a caller to start a call or a signal to be
\* triggered.
Fairness ==
    /\ WF_vars(DoneRecv)
    /\ WF_vars(DoneWg)
    /\ \A t \in Threads : WF_vars(Launch(t))
    /\ \A t \in Threads : WF_vars(WgAdd(t))
    /\ \A t \in Threads : WF_vars(WaitReturn(t))

\* Objects constructed with a capacity override: New(limit, WithSize(k))
SizeInit ==
    /\ \E l \in Limits, opts \in SizeOptionLists : Fresh(l, opts)
    /\ budget = MaxUnits

SizeSpec == SizeInit /\ [][Next]_vars

\* Two callers with room for one Add(MaxDelta) each, on an object made by
\* New(limit) with limit >= 1
BatchInit ==
    /\ \E l \in 1 .. MaxLimit : Fresh(l, << >>)
    /\ budget = MaxDelta + MaxDelta

BatchSpec == BatchInit /\ [][Next]_vars

\* Objects constructed without options: New(limit)
FairInit == Init /\ timeout = DEFAULT_ASSIGNMENT_TIMEOUT

FairSpec == FairInit /\ [][Next]_vars /\ Fairness

\* Objects with a finite capacity, so that the pool can be full.  Time
\* passes while a deadline is pending, and a goroutine whose select has a
\* ready case takes one.
TimedInit == FairInit /\ limit >= 1

TimedFairSpec ==
    /\ TimedInit
    /\ [][Next]_vars
    /\ Fairness
    /\ WF_vars(Tick)
    /\ \A t \in Threads : WF_vars(SelectCtxDone(t))

\* ------------------------------------------- the concurrent fan-out variant
\* The variables of the sequential calls and of Wait
seqVars == << pc, delta, i, assigned, ret, ctxKind, ctxLeft, sig,
              ctxDoneAtCall, acquired, incs, snap, granted, issued,
              timeVars >>

\* A send on a closed channel or a second close has crashed the program.
Panicked ==
    \/ \E k \in Workers : worker[k] = "panic"
    \/ spinner = "panic"

\* func (s *WaitGroupPool) AddWithContextCocurrent(ctx, delta): the three
\* channels are made, delta attempt goroutines and the polling goroutine
\* are started, and the caller reaches its select.
AddWithContextCocurrent(signal, d) ==
    /\ cpc = "idle"
    /\ cdelta' = d
    /\ csig' = signal
    /\ IF InvalidDelta(d)
         THEN /\ cpc' = "returned"
              /\ cret' = [n |-> 0, err |-> "InvalidArgument"]
              /\ UNCHANGED << worker, spinner >>
         ELSE /\ cpc' = "select"
              /\ cret' = NoRet
              /\ worker' = [k \in Workers |->
                              IF LoopCond(k - 1, d) THEN "select" ELSE "off"]
              /\ spinner' = "poll"
    /\ errCh' = [closed |-> FALSE]
    /\ grCh' = [len |-> 0, closed |-> FALSE]
    /\ complete' = [closed |-> FALSE]
    /\ UNCHANGED << objVars, seqVars, unitVars, current, wg, cAcquired,
                    cIncs >>

\* Attempt goroutine k, atomicAddWithContext, case `s.current <- struct{}{}`
WorkerSelectSend(k) ==
    /\ ~Panicked
    /\ worker[k] = "select"
    /\ CanSend(current, chanCap)
    /\ current' = current + 1
    /\ cAcquired' = cAcquired + 1
    /\ worker' = [worker EXCEPT ![k] = "wgAdd"]
    /\ UNCHANGED << objVars, seqVars, unitVars, wg, cpc, cdelta, cret, csig,
                    spinner, errCh, grCh, complete, cIncs >>

\* Attempt goroutine k, atomicAddWithContext, case `<-ctx.Done()`:
\* return 0, ctx.Err()
WorkerSelectCtxDone(k) ==
    /\ ~Panicked
    /\ worker[k] = "select"
    /\ csig # "nil"
    /\ worker' = [worker EXCEPT ![k] = "sendErr"]
    /\ UNCHANGED << objVars, seqVars, unitVars, current, wg, cpc, cdelta,
                    cret, csig, spinner, errCh, grCh, complete, cAcquired,
                    cIncs >>

\* Attempt goroutine k, atomicAddWithContext: s.wg.Add(1); return 1, nil
WorkerWgAdd(k) ==
    /\ ~Panicked
    /\ worker[k] = "wgAdd"
    /\ wg' = WgAfterAdd(wg)
    /\ cIncs' = cIncs + 1
    /\ worker' = [worker EXCEPT ![k] = "sendGr"]
    /\ UNCHANGED << objVars, seqVars, unitVars, current, cpc, cdelta, cret,
                    csig, spinner, errCh, grCh, complete, cAcquired >>

\* Attempt goroutine k: grCh <- struct{}{} (the buffer has room for delta)
WorkerSendGr(k) ==
    /\ ~Panicked
    /\ worker[k] = "sendGr"
    /\ IF grCh.closed
         THEN /\ worker' = [worker EXCEPT ![k] = "panic"]
              /\ UNCHANGED grCh
         ELSE /\ grCh.len < cdelta
              /\ grCh' = [grCh EXCEPT !.len = @ + 1]
              /\ worker' = [worker EXCEPT ![k] = "exit"]
    /\ UNCHANGED << objVars, seqVars, unitVars, current, wg, cpc, cdelta,
                    cret, csig, spinner, errCh, complete, cAcquired, cIncs >>

\* Attempt goroutine k: errCh <- err.  The channel is unbuffered: the send
\* completes when the caller's select takes `case err := <- errCh`, which
\* returns len(grCh), err; on a closed channel the send panics.
WorkerSendErr(k) ==
    /\ ~Panicked
    /\ worker[k] = "sendErr"
    /\ IF errCh.closed
         THEN /\ worker' = [worker EXCEPT ![k] = "panic"]
              /\ UNCHANGED << cpc, cret >>
         ELSE /\ cpc = "select"
              /\ cpc' = "returned"
              /\ cret' = [n |-> grCh.len, err |-> csig]
              /\ worker' = [worker EXCEPT ![k] = "closeErr"]
    /\ UNCHANGED << objVars, seqVars, unitVars, current, wg, cdelta, csig,
                    spinner, errCh, grCh, complete, cAcquired, cIncs >>

\* Attempt goroutine k: close(errCh); return
WorkerCloseErr(k) ==
    /\ ~Panicked
    /\ worker[k] = "closeErr"
    /\ IF errCh.closed
         THEN /\ worker' = [worker EXCEPT ![k] = "panic"]
              /\ UNCHANGED errCh
         ELSE /\ errCh' = [errCh EXCEPT !.closed = TRUE]
              /\ worker' = [worker EXCEPT ![k] = "exit"]
    /\ UNCHANGED << objVars, seqVars, unitVars, current, wg, cpc, cdelta,
                    cret, csig, spinner, grCh, complete, cAcquired, cIncs >>

\* The polling goroutine: for { if len(grCh) == delta { ... } }
SpinnerPoll ==
    /\ ~Panicked
    /\ spinner = "poll"
    /\ grCh.len = cdelta
    /\ spinner' = "sendComplete"
    /\ UNCHANGED << objVars, seqVars, unitVars, current, wg, cpc, cdelta,
                    cret, csig, worker, errCh, grCh, complete, cAcquired,
                    cIncs >>

\* The polling goroutine: complete <- true, taken by the caller's select
\* `case <- complete`, which returns delta, nil
SpinnerSendComplete ==
    /\ ~Panicked
    /\ spinner = "sendComplete"
    /\ IF complete.closed
         THEN /\ spinner' = "panic"
              /\ UNCHANGED << cpc, cret >>
         ELSE /\ cpc = "select"
              /\ cpc' = "returned"
              /\ cret' = [n |-> cdelta, err |-> "nil"]
              /\ spinner' = "closeComplete"
    /\ UNCHANGED << objVars, seqVars, unitVars, current, wg, cdelta, csig,
                    worker, errCh, grCh, complete, cAcquired, cIncs >>

\* The polling goroutine: close(complete)
SpinnerCloseComplete ==
    /\ ~Panicked
    /\ spinner = "closeComplete"
    /\ IF complete.closed
         THEN /\ spinner' = "panic"
              /\ UNCHANGED complete
         ELSE /\ complete' = [complete EXCEPT !.closed = TRUE]
              /\ spinner' = "closeGr"
    /\ UNCHANGED << objVars, seqVars, unitVars, current, wg, cpc, cdelta,
                    cret, csig, worker, errCh, grCh, cAcquired, cIncs >>

\* The polling goroutine: close(grCh); return
SpinnerCloseGr ==
    /\ ~Panicked
    /\ spinner = "closeGr"
    /\ IF grCh.closed
         THEN /\ spinner' = "panic"
              /\ UNCHANGED grCh
         ELSE /\ grCh' = [grCh EXCEPT !.closed = TRUE]
              /\ spinner' = "exit"
    /\ UNCHANGED << objVars, seqVars, unitVars, current, wg, cpc, cdelta,
                    cret, csig, worker, errCh, complete, cAcquired, cIncs >>

\* The caller's select, `case <- ctx.Done()`: return len(grCh), ctx.Err()
MainCtxDone ==
    /\ ~Panicked
    /\ cpc = "select"
    /\ csig # "nil"
    /\ cpc' = "returned"
    /\ cret' = [n |-> grCh.len, err |-> csig]
    /\ UNCHANGED << objVars, seqVars, unitVars, current, wg, cdelta, csig,
                    worker, spinner, errCh, grCh, complete, cAcquired,
                    cIncs >>

\* The context of the call is cancelled (cancelFunc()), during the call or
\* after it returned.
ConcCancel ==
    /\ ~Panicked
    /\ cpc \in {"select", "returned", "launched"}
    /\ ~InvalidDelta(cdelta)
    /\ csig = "nil"
    /\ csig' = "Canceled"
    /\ UNCHANGED << objVars, seqVars, unitVars, current, wg, cpc, cdelta,
                    cret, worker, spinner, errCh, grCh, complete, cAcquired,
                    cIncs >>

\* The caller, after the call returned (n, err), launches n units of work.
ConcLaunch ==
    /\ ~Panicked
    /\ cpc = "returned"
    /\ cpc' = "launched"
    /\ running' = running + cret.n
    /\ UNCHANGED << objVars, seqVars, current, wg, doneMid, finished, cdelta,
                    cret, csig, worker, spinner, errCh, grCh, complete,
                    cAcquired, cIncs >>

\* A unit launched after the call runs `<-s.current` of Done.
UnitDoneRecv == ~Panicked /\ DoneRecv

\* A unit launched after the call runs `s.wg.Done()` of Done.
UnitDoneWg == ~Panicked /\ DoneWg

\* One call of AddWithContextCocurrent on an object made by New(limit)
ConcInit ==
    /\ \E l \in Limits : Fresh(l, << >>)
    /\ budget = MaxUnits

ConcNext ==
    \/ \E signal \in Signals, d \in Deltas : AddWithContextCocurrent(signal, d)
    \/ \E k \in Workers : WorkerSelectSend(k)
    \/ \E k \in Workers : WorkerSelectCtxDone(k)
    \/ \E k \in Workers : WorkerWgAdd(k)
    \/ \E k \in Workers : WorkerSendGr(k)
    \/ \E k \in Workers : WorkerSendErr(k)
    \/ \E k \in Workers : WorkerCloseErr(k)
    \/ SpinnerPoll
    \/ SpinnerSendComplete
    \/ SpinnerCloseComplete
    \/ SpinnerCloseGr
    \/ MainCtxDone
    \/ ConcCancel
    \/ ConcLaunch
    \/ UnitDoneRecv
    \/ UnitDoneWg

ConcSpec == ConcInit /\ [][ConcNext]_vars

\* ------------------------------------------------------------ properties
RECURSIVE SumOver(_, _)
SumOver(S, f) ==
    IF S = {} THEN 0
    ELSE LET x == CHOOSE y \in S : TRUE
         IN  f[x] + SumOver(S \ {x}, f)

\* Admissions a call has obtained for units the caller has yet to launch
NotLaunched == SumOver(Threads, acquired)

\* Units holding an admission whose Done has not started
InFlight == running + NotLaunched

\* The capacity the object was created with
Capacity == IF limit >= 1 THEN limit ELSE MaxInt32

\* C1: with a capacity C >= 1, the admissions granted whose Done has not
\* started never number more than C.
C1_InFlightAtMostCapacity == limit >= 1 => InFlight <= limit

\* C1 witness: the pool of a capacity-limited object is full of launched
\* units while a goroutine waits in its select for a slot.
C1_Witness ==
    /\ limit >= 1
    /\ running = limit
    /\ \E t \in Threads : pc[t] = "select"

\* C2: the channel holds between 0 and the created capacity tokens, and
\* none before the first admission is requested.
C2_SlotsWithinCapacity ==
    /\ 0 <= current
    /\ current <= Capacity
    /\ issued = 0 => current = 0

\* C2 witness: every slot of a capacity-2 pool is held.
C2_Witness == limit = 2 /\ current = 2

\* C3 as stated: the counter equals the number of held slots in every state.
C3_CounterEqualsSlots == wg = current

\* C3 amended: the counter equals the held slots, less the attempts that
\* have sent their token and not yet called wg.Add, plus the Done calls
\* that have received their token and not yet called wg.Done.
C3_CounterTracksSlots ==
    wg = current - Cardinality({t \in Threads : pc[t] = "wgAdd"}) + doneMid

\* C3 witness: an attempt is between its send and its wg.Add while a Done
\* is between its receive and its wg.Done.
C3_Witness ==
    /\ \E t \in Threads : pc[t] = "wgAdd"
    /\ doneMid > 0
    /\ wg # current

\* C4: when Wait is over, every admission granted by a call that had
\* returned when Wait was invoked has completed its Done.
C4_WaitAfterAllDone ==
    \A t \in Threads : pc[t] = "woken" => finished >= snap[t]

\* C4 witness: a Wait invoked after two admissions had been granted, and
\* blocked for a while, is over.
C4_Witness ==
    \E t \in Threads : pc[t] = "woken" /\ snap[t] >= 2 /\ finished >= 2

\* C5: Wait blocks exactly when the counter is not zero, stays blocked
\* while the counter stays nonzero, and a blocked Wait is over once no Add*
\* call is in progress any more.
C5_WaitIffZero ==
    /\ [][\A t \in Threads :
            /\ (pc[t] = "idle" /\ pc'[t] = "waiting") => wg # 0
            /\ (pc[t] = "idle" /\ pc'[t] = "woken") => wg = 0
            /\ (pc[t] = "waiting" /\ wg # 0 /\ wg' # 0) => pc'[t] = "waiting"
         ]_vars
    /\ \A t \in Threads :
          (pc[t] = "waiting") ~>
              (pc[t] # "waiting" \/ \E u \in Threads : InAdd(u))

\* C5 witness: a goroutine is blocked in Wait with units outstanding and no
\* Add* call in progress.
C5_Witness ==
    /\ \E t \in Threads : pc[t] = "waiting"
    /\ running > 0
    /\ \A u \in Threads : ~InAdd(u)

\* An Add* call of goroutine t starts in this step.
AddCalled(t) == pc[t] = "idle" /\ pc'[t] \in {"select", "returned"}

\* C6: an Add* call with delta < 1 returns (0, error) at once and leaves
\* the channel and the counter alone.
C6_InvalidDeltaGrantsNothing ==
    [][\A t \in Threads :
         (AddCalled(t) /\ delta'[t] < 1) =>
            /\ pc'[t] = "returned"
            /\ ret'[t] = [n |-> 0, err |-> "InvalidArgument"]
            /\ acquired'[t] = 0 /\ incs'[t] = 0
            /\ current' = current /\ wg' = wg
      ]_vars

\* C6 witness: a call with delta < 1 and a triggered signal has returned
\* while every slot is held.
C6_Witness ==
    \E t \in Threads :
        /\ pc[t] = "returned" /\ delta[t] < 1
        /\ sig[t] = "Canceled"
        /\ current = chanCap

\* C7: a returned Add* call with delta >= 1 reports the slots it acquired
\* and the increments it made: delta with no error, fewer than delta with
\* one; every admission granted and not yet released still holds its token.
C7_ReturnedCountIsGranted ==
    /\ \A t \in Threads :
          (pc[t] = "returned" /\ delta[t] >= 1) =>
             /\ ret[t].n = acquired[t]
             /\ ret[t].n = incs[t]
             /\ ret[t].err = "nil" => ret[t].n = delta[t]
             /\ ret[t].err # "nil" => (0 <= ret[t].n /\ ret[t].n < delta[t])
    /\ current = InFlight

\* C7 witness: Add*(2) has returned (1, error) and its one token is held.
C7_Witness ==
    \E t \in Threads :
        /\ pc[t] = "returned" /\ delta[t] = 2
        /\ ret[t].n = 1 /\ ret[t].err # "nil"
        /\ current >= 1

\* C8 as stated: AddWithContext called with a triggered signal acquires no
\* slot and returns (0, Canceled), whatever the pool holds.
C8_TriggeredSignalGrantsNothing ==
    \A t \in Threads :
        (ctxDoneAtCall[t] /\ delta[t] >= 1) =>
            /\ acquired[t] = 0
            /\ pc[t] = "returned" => ret[t] = [n |-> 0, err |-> "Canceled"]

\* C9: an attempt that fails changes neither the channel nor the counter;
\* with every slot held and the signal triggered, AddWithContext(signal, 1)
\* can only return (0, Canceled).
C9_FailedAttemptChangesNothing ==
    [][\A t \in Threads :
         /\ (pc[t] = "select" /\ pc'[t] = "returned") =>
               /\ current' = current /\ wg' = wg
               /\ acquired'[t] = acquired[t] /\ incs'[t] = incs[t]
         /\ (/\ pc[t] = "select" /\ pc'[t] # "select"
             /\ ctxKind[t] = "signal" /\ sig[t] = "Canceled"
             /\ current = chanCap /\ delta[t] = 1) =>
               /\ pc'[t] = "returned"
               /\ ret'[t] = [n |-> 0, err |-> "Canceled"]
               /\ current' = current /\ wg' = wg
      ]_vars

\* C9 witness: on a full capacity-1 pool AddWithContext(signal, 1) has
\* returned (0, Canceled).
C9_Witness ==
    \E t \in Threads :
        /\ limit = 1 /\ current = 1 /\ wg = 1
        /\ pc[t] = "returned" /\ delta[t] = 1
        /\ ret[t] = [n |-> 0, err |-> "Canceled"]

\* C10: a limit <= 0 gives the capacity math.MaxInt32: no attempt ever
\* finds the channel full, and Wait is over only after every admission
\* granted before it has completed its Done.
C10_NonPositiveLimitUnbounded ==
    /\ \A l \in -MaxLimit .. 0 : NewSize(l) = MaxInt32
    /\ limit <= 0 =>
          /\ chanCap = MaxInt32
          /\ current < chanCap
          /\ finished + doneMid + running <= granted
          /\ \A t \in Threads : pc[t] = "woken" => finished >= snap[t]

\* C10 witness: on an object made with limit <= 0 every admission of the
\* run is held at once, no Done having started.
C10_Witness ==
    /\ limit <= 0
    /\ current = MaxUnits
    /\ finished = 0 /\ doneMid = 0

\* C11 as stated: the size given to WithSize is the admission limit, so
\* the channel never holds more tokens than the Size field says.
C11_SizeIsAdmissionLimit == current <= Size

\* The error of a failed attempt
CtxErrors == {"Canceled", "DeadlineExceeded"}

\* C12: a failed call reports DeadlineExceeded when its derived deadline
\* passed and Canceled when the caller's signal was triggered, and a call
\* with a derived deadline that waits on a full pool ends with
\* DeadlineExceeded unless a slot is released.
C12_ErrorNamesCause ==
    /\ [](\A t \in Threads :
            (pc[t] = "returned" /\ delta[t] >= 1 /\ ret[t].err # "nil") =>
               /\ ret[t].err \in CtxErrors
               /\ ctxKind[t] = "timeout" =>
                     (ret[t].err = "DeadlineExceeded" /\ ctxLeft[t] = 0)
               /\ ctxKind[t] = "signal" =>
                     (ret[t].err = "Canceled" /\ sig[t] = "Canceled"))
    /\ \A t \in Threads :
          (pc[t] = "select" /\ ctxKind[t] = "timeout" /\ current = chanCap) ~>
              \/ pc[t] = "returned" /\ ret[t].err = "DeadlineExceeded"
              \/ current < chanCap

\* C12 witness: a call with a derived deadline has waited on a full pool
\* and returned DeadlineExceeded.
C12_Witness ==
    \E t \in Threads :
        /\ pc[t] = "returned" /\ ret[t].err = "DeadlineExceeded"
        /\ ctxKind[t] = "timeout" /\ elapsed[t] > 0
        /\ current = chanCap

\* The time the current attempt of goroutine t has waited
AttemptWaited(t) == elapsed[t] - attemptStart[t]

\* A call whose deadline was derived from the default timeout has failed
\* on its deadline.
DefaultDeadlineFailure(t) ==
    /\ pc[t] = "returned" /\ ret[t].err = "DeadlineExceeded"
    /\ ctxKind[t] = "timeout" /\ ctxTimeout[t] = timeout

\* C13 as stated: an attempt fails with DeadlineExceeded only after it has
\* itself waited a full default timeout.
C13_EachAttemptOwnDeadline ==
    \A t \in Threads : DefaultDeadlineFailure(t) => AttemptWaited(t) >= timeout

\* C13 amended: the attempts of a call share the one deadline derived when
\* the call started: the signal is triggered exactly when a full timeout
\* has passed since the call started, whenever the attempt at hand began.
C13_OneDeadlinePerCall ==
    \A t \in Threads :
        ((InAdd(t) \/ pc[t] = "returned") /\ ctxKind[t] = "timeout") =>
            /\ CtxErr(t) = "DeadlineExceeded" <=> elapsed[t] >= ctxTimeout[t]
            /\ attemptStart[t] <= elapsed[t]
            /\ (ret[t].err = "DeadlineExceeded") => elapsed[t] >= ctxTimeout[t]

\* C13 witness: the second attempt of a call with the default timeout has
\* failed on the deadline after waiting less than that timeout.
C13_Witness ==
    \E t \in Threads :
        /\ DefaultDeadlineFailure(t)
        /\ timeout = DEFAULT_ASSIGNMENT_TIMEOUT
        /\ ret[t].n = 1
        /\ AttemptWaited(t) < timeout

\* Every caller waits in its select for a slot, its signal not triggered,
\* the pool is full and no launched unit is left to call Done.
Stuck ==
    /\ \A t \in Threads : pc[t] = "select" /\ CtxErr(t) = "nil"
    /\ current = chanCap
    /\ running = 0

C15_DoneFindsToken == running <= current

\* C15 witness: a unit is about to call Done while another is inside Done
\* and an Add* call is between its send and its wg.Add.
C15_Witness ==
    /\ running >= 1
    /\ doneMid >= 1
    /\ \E t \in Threads : pc[t] = "wgAdd"

\* No call is in progress and no unit of work is left.
Quiescent ==
    /\ \A t \in Threads : pc[t] = "idle"
    /\ running = 0
    /\ doneMid = 0

\* C16: once every granted admission has completed its Done, no slot is
\* held and the counter is zero, as after New.
C16_BatchRoundTrip == Quiescent => (current = 0 /\ wg = 0)

\* C16 witness: the object is quiescent after a batch of two units or more.
C16_Witness == Quiescent /\ finished >= 2

\* C17: the WaitGroup counter is never negative.
C17_CounterNeverNegative == wg >= 0

\* C17 witness: the counter is back at zero after a Done while an Add*
\* call holds a slot it has not counted yet.
C17_Witness ==
    /\ wg = 0
    /\ finished >= 1
    /\ \E t \in Threads : pc[t] = "wgAdd"

\* Admissions granted by returned calls whose Done has not been called
GrantedNotDone ==
    running + SumOver(Threads, [t \in Threads |->
                                  IF pc[t] = "returned" THEN ret[t].n ELSE 0])

\* C18: with no Add* call and no Done part-way, the counter, the number of
\* held slots and the number of admissions awaiting their Done agree.
C18_QuiescentCountsAgree ==
    ((\A t \in Threads : ~InAdd(t)) /\ doneMid = 0) =>
        (wg = current /\ current = GrantedNotDone)

\* C18 witness: no call is part-way, one unit runs and a returned call has
\* an admission it has yet to launch.
C18_Witness ==
    /\ \A t \in Threads : ~InAdd(t)
    /\ doneMid = 0
    /\ running >= 1
    /\ \E t \in Threads : pc[t] = "returned" /\ ret[t].n >= 1

\* C19: once AddWithContextCocurrent has returned (n, err), the attempts of
\* the call have acquired exactly n slots and raised the counter exactly n
\* times, at the return and ever after.
C19_ReturnedCountIsExact ==
    (cpc \in {"returned", "launched"} /\ ~InvalidDelta(cdelta))
        => (cret.n = cAcquired /\ cret.n = cIncs)

\* C20: no goroutine of AddWithContextCocurrent sends on a closed channel
\* or closes a closed channel.
C20_NoChannelPanic == ~Panicked

====
